---- MODULE Spec2Model ----
(***************************************************************************)
(* A model of the streaming ANSI parser (src/parser.go) and of the screen  *)
(* buffer it drives (src/unnamed/part_000).  The whole Screen, parser      *)
(* included, is one record; every Go method is an operator from Screen     *)
(* records to Screen records, and Write / SetSize are the actions.         *)
(***************************************************************************)
EXTENDS Integers, Sequences, FiniteSets, TLC

VARIABLES
    scr,    \* the Screen (with its parser) after the last call
    prev,   \* the Screen before the last call
    last,   \* the last call: [op |-> "new"], [op |-> "Write", input |-> bytes],
            \*                [op |-> "SetSize", cols |-> c, lines |-> l]
    ret,    \* what the last call returned: [n |-> Int, err |-> "nil" | "error" | "none"]
    calls   \* number of calls made so far

vars == <<scr, prev, last, ret, calls>>

(***************************************************************************)
(* Bounds of the model.                                                    *)
(***************************************************************************)
\* Width in bits of Go's int.  The program runs with 64; the model keeps
\* two's-complement wrap-around at a width TLC can enumerate.
IntBits == 10
\* Number of Write / SetSize calls in one behaviour.
MaxCalls == 3

MaxInt == 2^(IntBits - 1) - 1
MinInt == -(2^(IntBits - 1))

\* Go's int arithmetic wraps silently.
Wrap(v) == ((v - MinInt) % 2^IntBits) + MinInt

\* A loop that needs more than LoopLimit iterations does not finish: only a
\* coordinate that has wrapped around asks for that many, and at the real
\* width memory or time runs out first.
LoopLimit == MaxInt \div 2

\* Go's % truncates toward zero: the remainder has the dividend's sign.
Rem(a, b) == IF a >= 0 THEN a % b ELSE -((-a) % b)

Min(a, b) == IF a <= b THEN a ELSE b
Max(a, b) == IF a >= b THEN a ELSE b

(***************************************************************************)
(* Characters the parser and the screen switch on.                         *)
(***************************************************************************)
ESC == 27
BEL == 7
LF == 10
CR == 13
BS == 8
RuneError == 65533

parserModeNormal == 0
parserModeEscape == 1
parserModeControl == 2
parserModeOSC == 3
parserModeOSCEsc == 4
parserModeCharset == 5
parserModeAPC == 6
parserModeAPCEsc == 7

screenStartOfLine == 0
screenEndOfLine == MaxInt

(***************************************************************************)
(* utf8.DecodeRune(p.buffer[p.cursor:]): <<rune, size>> of the first       *)
(* codepoint at 0-based offset c of the byte sequence b.  An invalid or    *)
(* truncated encoding decodes as <<RuneError, 1>>.                         *)
(***************************************************************************)
IsCont(b, i) == i <= Len(b) /\ b[i] \in 128..191

DecodeRune(b, c) ==
    LET i  == c + 1
        b0 == b[i]
        lo2 == IF b0 = 224 THEN 160 ELSE IF b0 = 240 THEN 144 ELSE 128
        hi2 == IF b0 = 237 THEN 159 ELSE IF b0 = 244 THEN 143 ELSE 191
        ok2 == i + 1 <= Len(b) /\ b[i + 1] \in lo2..hi2
    IN  IF b0 < 128 THEN <<b0, 1>>
        ELSE IF b0 \in 194..223 THEN
            IF ok2 THEN <<(b0 % 32) * 64 + (b[i + 1] % 64), 2>>
            ELSE <<RuneError, 1>>
        ELSE IF b0 \in 224..239 THEN
            IF ok2 /\ IsCont(b, i + 2)
            THEN <<(b0 % 16) * 4096 + (b[i + 1] % 64) * 64 + (b[i + 2] % 64), 3>>
            ELSE <<RuneError, 1>>
        ELSE IF b0 \in 240..244 THEN
            IF ok2 /\ IsCont(b, i + 2) /\ IsCont(b, i + 3)
            THEN <<(b0 % 8) * 262144 + (b[i + 1] % 64) * 4096
                        + (b[i + 2] % 64) * 64 + (b[i + 3] % 64), 4>>
            ELSE <<RuneError, 1>>
        ELSE <<RuneError, 1>>

\* unicode.ToUpper on the runes the model feeds: ASCII and Latin-1 letters.
ToUpper(r) ==
    IF r \in 97..122 THEN r - 32
    ELSE IF r \in 224..254 /\ r # 247 THEN r - 32
    ELSE r

(***************************************************************************)
(* ansiInt: a decimal parameter, 1 when empty or malformed.  strconv.Atoi  *)
(* fails on a non-digit and on a value that does not fit an int.           *)
(***************************************************************************)
RECURSIVE atoiFrom(_, _, _)
atoiFrom(str, i, acc) ==
    IF i > Len(str) THEN acc
    ELSE IF str[i] \notin 48..57 THEN -1
    ELSE LET v == acc * 10 + (str[i] - 48)
         IN  IF v > MaxInt THEN -1 ELSE atoiFrom(str, i + 1, v)

ansiInt(str) ==
    IF str = <<>> THEN 1
    ELSE LET v == atoiFrom(str, 1, 0) IN IF v < 0 THEN 1 ELSE v

(***************************************************************************)
(* Cells, styles and lines.  The style is an opaque value to the screen:   *)
(* a foreground code, the element bit and the hyperlink bit.               *)
(***************************************************************************)
defaultStyle == [fg |-> 0, element |-> FALSE, hyperlink |-> FALSE]

emptyNode == [blob |-> 32, style |-> defaultStyle]

setElement(st, on) == [st EXCEPT !.element = on]

hyperlink(st) == st.hyperlink

\* style.color(instructions): SGR.  No parameter or 0 resets the colour,
\* 30..37 select a foreground; the element and hyperlink bits are kept.
RECURSIVE colorFrom(_, _, _)
colorFrom(st, instructions, i) ==
    IF i > Len(instructions) THEN st
    ELSE LET n == IF instructions[i] = <<>> THEN 0 ELSE atoiFrom(instructions[i], 1, 0)
             t == IF n = 0 THEN [st EXCEPT !.fg = 0]
                  ELSE IF n \in 30..37 THEN [st EXCEPT !.fg = n]
                  ELSE st
         IN  colorFrom(t, instructions, i + 1)

styleColor(st, instructions) ==
    IF instructions = <<>> THEN [st EXCEPT !.fg = 0]
    ELSE colorFrom(st, instructions, 1)

\* screenLine{nodes: make([]node, 0, s.cols)}: no cells, no elements, no
\* metadata, no hyperlinks.
newScreenLine == [nodes |-> <<>>, elements |-> <<>>, metadata |-> {}, hyperlinks |-> {}]

\* line.asHTML(): the renderer is outside the core; it is a function of the
\* line, and the model passes the line's cells and elements themselves.
asHTML(l) == [nodes |-> l.nodes, elements |-> l.elements]

clearAll(l) == [l EXCEPT !.nodes = <<>>]

\* clear with the loop stopping one cell early: xEnd itself is kept.
clear_exclusiveEnd(l, xStart0, xEnd) ==
    LET xStart == IF xStart0 < 0 THEN 0 ELSE xStart0
    IN  IF xEnd < xStart THEN l
        ELSE IF xStart >= Len(l.nodes) THEN l
        ELSE IF xEnd >= Len(l.nodes) - 1
             THEN [l EXCEPT !.nodes = SubSeq(@, 1, xStart)]
        ELSE [l EXCEPT !.nodes =
                [i \in 1..Len(@) |->
                    IF i - 1 \in xStart..(xEnd - 1) THEN emptyNode ELSE @[i]]]

\* screenLine.clear(xStart, xEnd), both inclusive.
clear(l, xStart0, xEnd) ==
    LET xStart == IF xStart0 < 0 THEN 0 ELSE xStart0
    IN  IF xEnd < xStart THEN l
        ELSE IF xStart >= Len(l.nodes) THEN l
        ELSE IF xEnd >= Len(l.nodes) - 1
             THEN [l EXCEPT !.nodes = SubSeq(@, 1, xStart)]
        ELSE [l EXCEPT !.nodes =
                [i \in 1..Len(@) |-> IF i - 1 \in xStart..xEnd THEN emptyNode ELSE @[i]]]

(***************************************************************************)
(* The Screen.                                                             *)
(***************************************************************************)
\* top(): index within s.screen where the window begins.
top(s) == Max(0, Len(s.screen) - s.lines)

\* currentLine(): 1-based index of the cursor's line in s.screen, 0 for nil.
currentLine(s) ==
    LET yidx == top(s) + s.y
    IN  IF yidx < 0 \/ yidx >= Len(s.screen) THEN 0 ELSE yidx + 1

\* allocStep that scrolls a line out without removing it from the buffer.
allocStep_evictKeepsFirst(s) ==
    IF s.maxLines <= 0 \/ Len(s.screen) + 1 <= s.maxLines
    THEN [s EXCEPT !.screen = Append(@, newScreenLine),
                   !.y = IF s.y >= s.lines THEN Wrap(s.y - 1) ELSE s.y]
    ELSE [s EXCEPT !.scrolledOut = IF s.hasScrollOutFunc
                                   THEN Append(@, asHTML(s.screen[1])) ELSE @,
                   !.LinesScrolledOut = @ + 1,
                   !.screen = Append(@, newScreenLine),
                   !.y = Wrap(s.y - 1)]

\* allocStep with the room test off by one: a line is appended when the
\* buffer already holds maxLines.
allocStep_appendAtCap(s) ==
    IF s.maxLines <= 0 \/ Len(s.screen) <= s.maxLines
    THEN [s EXCEPT !.screen = Append(@, newScreenLine),
                   !.y = IF s.y >= s.lines THEN Wrap(s.y - 1) ELSE s.y]
    ELSE [s EXCEPT !.scrolledOut = IF s.hasScrollOutFunc
                                   THEN Append(@, asHTML(s.screen[1])) ELSE @,
                   !.LinesScrolledOut = @ + 1,
                   !.screen = Append(Tail(@), newScreenLine),
                   !.y = Wrap(s.y - 1)]

\* allocStep handing the callback the newest line instead of the evicted one.
allocStep_passLastLine(s) ==
    IF s.maxLines <= 0 \/ Len(s.screen) + 1 <= s.maxLines
    THEN [s EXCEPT !.screen = Append(@, newScreenLine),
                   !.y = IF s.y >= s.lines THEN Wrap(s.y - 1) ELSE s.y]
    ELSE [s EXCEPT !.scrolledOut = IF s.hasScrollOutFunc
                                   THEN Append(@, asHTML(s.screen[Len(s.screen)])) ELSE @,
                   !.LinesScrolledOut = @ + 1,
                   !.screen = Append(Tail(@), newScreenLine),
                   !.y = Wrap(s.y - 1)]

\* One iteration of the allocation loop of currentLineForWriting: append a
\* fresh line, or (maxLines reached) scroll the first line out and recycle it.
allocStep(s) ==
    IF s.maxLines <= 0 \/ Len(s.screen) + 1 <= s.maxLines
    THEN [s EXCEPT !.screen = Append(@, newScreenLine),
                   !.y = IF s.y >= s.lines THEN Wrap(s.y - 1) ELSE s.y]
    ELSE [s EXCEPT !.scrolledOut = IF s.hasScrollOutFunc
                                   THEN Append(@, asHTML(s.screen[1])) ELSE @,
                   !.LinesScrolledOut = @ + 1,
                   !.screen = Append(Tail(@), newScreenLine),
                   !.y = Wrap(s.y - 1)]

RECURSIVE allocLoop(_)
allocLoop(s) == IF currentLine(s) # 0 THEN s ELSE allocLoop(allocStep(s))

\* The first loop of currentLineForWriting: lines are added until there is
\* one at the cursor.  status "hang": the loop does not end.
allocLines(s) ==
    IF currentLine(s) # 0 THEN s
    ELSE IF top(s) + s.y < 0 \/ top(s) + s.y - Len(s.screen) >= LoopLimit
         THEN [s EXCEPT !.status = "hang"]
    ELSE allocLoop(s)

\* The second loop of currentLineForWriting: empty cells are added to the
\* line at the cursor until it has x+1 of them.
padLine(t) ==
    LET idx == currentLine(t)
        len == Len(t.screen[idx].nodes)
    IN  IF t.status # "ok" THEN t
        ELSE IF t.x < len THEN t
        ELSE IF t.x = MaxInt \/ t.x - len >= LoopLimit
             THEN [t EXCEPT !.status = "hang"]
        ELSE [t EXCEPT !.screen[idx].nodes =
                @ \o [i \in 1..(t.x - len + 1) |-> emptyNode]]

\* currentLineForWriting(): the Screen with a line at the cursor that has at
\* least x+1 cells.
currentLineForWriting(s) == padLine(allocLines(s))

\* line.nodes[s.x] = node{...} and the hyperlink entry, on the line that
\* currentLineForWriting returned.  status "panic": index out of range.
setNode(t, data) ==
    LET idx == currentLine(t)
    IN  IF t.status # "ok" THEN t
        ELSE IF t.x < 0 THEN [t EXCEPT !.status = "panic"]
        ELSE [t EXCEPT !.screen[idx].nodes[t.x + 1] = [blob |-> data, style |-> t.style],
                       !.screen[idx].hyperlinks =
                            IF hyperlink(t.style)
                            THEN {h \in @ : h[1] # t.x} \cup {<<t.x, t.urlBrush>>}
                            ELSE @]

\* write(data): set the cell at the cursor.
write(s, data) == setNode(currentLineForWriting(s), data)

\* s.x++ after a write that returned.
incX(t) == IF t.status # "ok" THEN t ELSE [t EXCEPT !.x = Wrap(@ + 1)]

append(s, data) == incX(write(s, data))

RECURSIVE appendMany(_, _)
appendMany(s, data) ==
    IF data = <<>> \/ s.status # "ok" THEN s
    ELSE appendMany(append(s, Head(data)), Tail(data))

\* setElementNode taking the index after the append: one past the element.
setElementNode_indexAfterAppend(t, e) ==
    LET idx == currentLine(t)
        n == Len(t.screen[idx].elements) + 1
    IN  IF t.status # "ok" THEN t
        ELSE IF t.x < 0 THEN [t EXCEPT !.status = "panic",
                                       !.screen[idx].elements = Append(@, e)]
        ELSE [t EXCEPT !.screen[idx].elements = Append(@, e),
                       !.screen[idx].nodes[t.x + 1] =
                            [blob |-> n, style |-> setElement(t.style, TRUE)],
                       !.x = Wrap(@ + 1)]

\* The body of appendElement on the line that currentLineForWriting
\* returned: append the element, point the cell at the cursor to it, x++.
setElementNode(t, e) ==
    LET idx == currentLine(t)
        n == Len(t.screen[idx].elements)
    IN  IF t.status # "ok" THEN t
        ELSE IF t.x < 0 THEN [t EXCEPT !.status = "panic",
                                       !.screen[idx].elements = Append(@, e)]
        ELSE [t EXCEPT !.screen[idx].elements = Append(@, e),
                       !.screen[idx].nodes[t.x + 1] =
                            [blob |-> n, style |-> setElement(t.style, TRUE)],
                       !.x = Wrap(@ + 1)]

appendElement(s, e) == setElementNode(currentLineForWriting(s), e)

bkNamespace == "bk"

\* The body of setLineMetadata on the line that currentLineForWriting
\* returned.  A line's metadata is the set of its <<namespace, key, value>>;
\* data is a set of <<key, value>>.
mergeMetadata(t, namespace, data) ==
    LET idx == currentLine(t)
        keys == {kv[1] : kv \in data}
    IN  IF t.status # "ok" THEN t
        ELSE [t EXCEPT !.screen[idx].metadata =
                {m \in @ : ~(m[1] = namespace /\ m[2] \in keys)}
                    \cup {<<namespace, kv[1], kv[2]>> : kv \in data}]

\* setLineMetadata(namespace, data): merge data into the line's metadata,
\* new values replacing old ones.
setLineMetadata(s, namespace, data) ==
    mergeMetadata(currentLineForWriting(s), namespace, data)

color(s, i) == [s EXCEPT !.style = styleColor(@, i)]

up(s, i) ==
    LET y1 == Wrap(s.y - ansiInt(i))
        t == IF y1 < 0 THEN [s EXCEPT !.CursorUpOOB = @ + 1, !.y = 0]
             ELSE [s EXCEPT !.y = y1]
    IN  [t EXCEPT !.x = Rem(@, s.cols)]

down(s, i) ==
    LET y1 == Wrap(s.y + ansiInt(i))
        t == IF y1 >= s.lines THEN [s EXCEPT !.CursorDownOOB = @ + 1, !.y = s.lines - 1]
             ELSE [s EXCEPT !.y = y1]
    IN  [t EXCEPT !.x = Rem(@, s.cols)]

forward(s, i) ==
    LET x1 == Wrap(s.x + ansiInt(i))
    IN  IF x1 >= s.cols THEN [s EXCEPT !.CursorFwdOOB = @ + 1, !.x = s.cols - 1]
        ELSE [s EXCEPT !.x = x1]

\* backward clamping without counting.
backward_noCount(s, i) ==
    LET x1 == Wrap(s.x - ansiInt(i))
    IN  IF x1 < 0 THEN [s EXCEPT !.x = 0]
        ELSE [s EXCEPT !.x = x1]

backward(s, i) ==
    LET x1 == Wrap(s.x - ansiInt(i))
    IN  IF x1 < 0 THEN [s EXCEPT !.CursorBackOOB = @ + 1, !.x = 0]
        ELSE [s EXCEPT !.x = x1]

newLine(s) == [s EXCEPT !.x = 0, !.y = Wrap(@ + 1)]

revNewLine(s) == IF s.y > 0 THEN [s EXCEPT !.y = @ - 1] ELSE s

carriageReturn(s) == [s EXCEPT !.x = 0]

backspace(s) == IF s.x > 0 THEN [s EXCEPT !.x = @ - 1] ELSE s

\* s.currentLine().clear(xStart, xEnd): nothing on a nil line.
clearCurrent(s, xStart, xEnd) ==
    LET idx == currentLine(s)
    IN  IF idx = 0 THEN s ELSE [s EXCEPT !.screen[idx] = clear(@, xStart, xEnd)]

\* Screen.clear(y, xStart, xEnd), called by the parser before an element on
\* its own line: clears the cursor line's cells in the given range.
screenClear(s, y, xStart, xEnd) == clearCurrent(s, xStart, xEnd)

\* inst(i): the i-th instruction (0-based), "" when not supplied.
inst(instructions, i) ==
    IF i < 0 \/ i >= Len(instructions) THEN <<>> ELSE instructions[i + 1]

\* eraseInDisplay with 0 truncating the buffer at the cursor row itself.
eraseInDisplay_0DropsCursorRow(s, i0) ==
    LET yidx == top(s) + s.y
    IN  CASE i0 \in {<<48>>, <<>>} ->
                LET t == clearCurrent(s, s.x, screenEndOfLine)
                IN  IF yidx < 0 \/ yidx >= Len(t.screen) THEN t
                    ELSE [t EXCEPT !.screen = SubSeq(@, 1, yidx)]
          [] i0 = <<49>> ->
                LET t == clearCurrent(s, screenStartOfLine, s.x)
                    end == Min(top(t) + t.y, Len(t.screen))
                IN  [t EXCEPT !.screen =
                        [i \in 1..Len(@) |->
                            IF i - 1 >= top(t) /\ i - 1 < end
                            THEN clearAll(@[i]) ELSE @[i]]]
          [] i0 = <<50>> ->
                [s EXCEPT !.screen = SubSeq(@, 1, top(s)), !.x = 0, !.y = 0]
          [] i0 = <<51>> ->
                [s EXCEPT !.screen = <<>>, !.x = 0, !.y = 0]
          [] OTHER -> s

\* eraseInDisplay with 1 blanking from the first buffer line, not from top().
eraseInDisplay_1FromBufferStart(s, i0) ==
    LET yidx == top(s) + s.y
    IN  CASE i0 \in {<<48>>, <<>>} ->
                LET t == clearCurrent(s, s.x, screenEndOfLine)
                IN  IF yidx < 0 \/ yidx >= Len(t.screen) THEN t
                    ELSE [t EXCEPT !.screen = SubSeq(@, 1, yidx + 1)]
          [] i0 = <<49>> ->
                LET t == clearCurrent(s, screenStartOfLine, s.x)
                    end == Min(top(t) + t.y, Len(t.screen))
                IN  [t EXCEPT !.screen =
                        [i \in 1..Len(@) |->
                            IF i - 1 >= 0 /\ i - 1 < end
                            THEN clearAll(@[i]) ELSE @[i]]]
          [] i0 = <<50>> ->
                [s EXCEPT !.screen = SubSeq(@, 1, top(s)), !.x = 0, !.y = 0]
          [] i0 = <<51>> ->
                [s EXCEPT !.screen = <<>>, !.x = 0, !.y = 0]
          [] OTHER -> s

\* eraseInDisplay with 2 performed the same as 3: the scroll-back goes too.
eraseInDisplay_2as3(s, i0) ==
    LET yidx == top(s) + s.y
    IN  CASE i0 \in {<<48>>, <<>>} ->
                LET t == clearCurrent(s, s.x, screenEndOfLine)
                IN  IF yidx < 0 \/ yidx >= Len(t.screen) THEN t
                    ELSE [t EXCEPT !.screen = SubSeq(@, 1, yidx + 1)]
          [] i0 = <<49>> ->
                LET t == clearCurrent(s, screenStartOfLine, s.x)
                    end == Min(top(t) + t.y, Len(t.screen))
                IN  [t EXCEPT !.screen =
                        [i \in 1..Len(@) |->
                            IF i - 1 >= top(t) /\ i - 1 < end
                            THEN clearAll(@[i]) ELSE @[i]]]
          [] i0 \in {<<50>>, <<51>>} ->
                [s EXCEPT !.screen = <<>>, !.x = 0, !.y = 0]
          [] OTHER -> s

\* case 'J' of applyEscape, Erase in Display, on the first instruction i0.
eraseInDisplay(s, i0) ==
    LET yidx == top(s) + s.y
    IN  CASE i0 \in {<<48>>, <<>>} ->
                LET t == clearCurrent(s, s.x, screenEndOfLine)
                IN  IF yidx < 0 \/ yidx >= Len(t.screen) THEN t
                    ELSE [t EXCEPT !.screen = SubSeq(@, 1, yidx + 1)]
          [] i0 = <<49>> ->
                LET t == clearCurrent(s, screenStartOfLine, s.x)
                    end == Min(top(t) + t.y, Len(t.screen))
                IN  [t EXCEPT !.screen =
                        [i \in 1..Len(@) |->
                            IF i - 1 >= top(t) /\ i - 1 < end
                            THEN clearAll(@[i]) ELSE @[i]]]
          [] i0 = <<50>> ->
                [s EXCEPT !.screen = SubSeq(@, 1, top(s)), !.x = 0, !.y = 0]
          [] i0 = <<51>> ->
                [s EXCEPT !.screen = <<>>, !.x = 0, !.y = 0]
          [] OTHER -> s

\* case 'K' of applyEscape, Erase in Line.
eraseInLine(s, i0) ==
    CASE i0 \in {<<48>>, <<>>} -> clearCurrent(s, s.x, screenEndOfLine)
      [] i0 = <<49>> -> clearCurrent(s, screenStartOfLine, s.x)
      [] i0 = <<50>> ->
            IF currentLine(s) = 0 THEN s
            ELSE [s EXCEPT !.screen[currentLine(s)] = clearAll(@)]
      [] OTHER -> s

\* applyEscape without the return for a first instruction starting with "?".
applyEscape_noPrivateCheck(s, code, instructions) ==
    LET i0 == inst(instructions, 0)
    IN  CASE code = 65 -> up(s, i0)                                   \* A
          [] code = 66 -> down(s, i0)                                      \* B
          [] code = 67 -> forward(s, i0)                                   \* C
          [] code = 68 -> backward(s, i0)                                  \* D
          [] code = 69 -> down([s EXCEPT !.x = 0], i0)                     \* E
          [] code = 70 -> up([s EXCEPT !.x = 0], i0)                       \* F
          [] code = 71 ->                                                  \* G
                [s EXCEPT !.x = Min(Max(ansiInt(i0) - 1, 0), s.cols - 1)]
          [] code = 72 ->                                                  \* H
                [s EXCEPT !.y = Min(Max(ansiInt(i0) - 1, 0), s.lines - 1),
                          !.x = Min(Max(ansiInt(inst(instructions, 1)) - 1, 0),
                                    s.cols - 1)]
          [] code = 74 -> eraseInDisplay(s, i0)                            \* J
          [] code = 75 -> eraseInLine(s, i0)                               \* K
          [] code = 77 -> color(s, instructions)                           \* M
          [] OTHER -> s

\* applyEscape with Horizontal Absolute counting a clamp at the right edge
\* in CursorFwdOOB.
applyEscape_countG(s, code, instructions) ==
    LET i0 == inst(instructions, 0)
    IN  IF i0 # <<>> /\ i0[1] = 63 THEN s
        ELSE CASE code = 65 -> up(s, i0)
          [] code = 66 -> down(s, i0)
          [] code = 67 -> forward(s, i0)
          [] code = 68 -> backward(s, i0)
          [] code = 69 -> down([s EXCEPT !.x = 0], i0)
          [] code = 70 -> up([s EXCEPT !.x = 0], i0)
          [] code = 71 ->
                [s EXCEPT !.x = Min(Max(ansiInt(i0) - 1, 0), s.cols - 1),
                          !.CursorFwdOOB = IF ansiInt(i0) - 1 > s.cols - 1
                                           THEN @ + 1 ELSE @]
          [] code = 72 ->
                [s EXCEPT !.y = Min(Max(ansiInt(i0) - 1, 0), s.lines - 1),
                          !.x = Min(Max(ansiInt(inst(instructions, 1)) - 1, 0),
                                    s.cols - 1)]
          [] code = 74 -> eraseInDisplay(s, i0)
          [] code = 75 -> eraseInLine(s, i0)
          [] code = 77 -> color(s, instructions)
          [] OTHER -> s

\* applyEscape(code, instructions): apply a control sequence to the screen.
applyEscape(s, code, instructions) ==
    LET i0 == inst(instructions, 0)
    IN  IF i0 # <<>> /\ i0[1] = 63 THEN s                        \* "?" prefix
        ELSE CASE code = 65 -> up(s, i0)                                   \* A
          [] code = 66 -> down(s, i0)                                      \* B
          [] code = 67 -> forward(s, i0)                                   \* C
          [] code = 68 -> backward(s, i0)                                  \* D
          [] code = 69 -> down([s EXCEPT !.x = 0], i0)                     \* E
          [] code = 70 -> up([s EXCEPT !.x = 0], i0)                       \* F
          [] code = 71 ->                                                  \* G
                [s EXCEPT !.x = Min(Max(ansiInt(i0) - 1, 0), s.cols - 1)]
          [] code = 72 ->                                                  \* H
                [s EXCEPT !.y = Min(Max(ansiInt(i0) - 1, 0), s.lines - 1),
                          !.x = Min(Max(ansiInt(inst(instructions, 1)) - 1, 0),
                                    s.cols - 1)]
          [] code = 74 -> eraseInDisplay(s, i0)                            \* J
          [] code = 75 -> eraseInLine(s, i0)                               \* K
          [] code = 77 -> color(s, instructions)                           \* M
          [] OTHER -> s

(***************************************************************************)
(* Collaborators of the parser that are outside the core.  Each is a       *)
(* function of the payload; the model decides on the payload's first byte. *)
(***************************************************************************)
ELEMENT_IMAGE == "image"
ELEMENT_LINK == "link"

\* parseElementSequence(sequence) -> (element | nil, error | nil):
\* "1..." an image, "2..." a link, "3..." an error, anything else nothing.
\* The result is [kind |-> "nil" | "element" | "error", ...].
parseElementSequence(sequence) ==
    LET first == IF sequence = <<>> THEN 0 ELSE sequence[1]
    IN  CASE first = 49 ->
                [kind |-> "element", elementType |-> ELEMENT_IMAGE, content |-> sequence]
          [] first = 50 ->
                [kind |-> "element", elementType |-> ELEMENT_LINK, content |-> sequence]
          [] first = 51 ->
                [kind |-> "error", elementType |-> "", content |-> <<101, 114, 114>>]
          [] OTHER -> [kind |-> "nil", elementType |-> "", content |-> <<>>]

\* parseBuildkiteAPC(sequence) -> (map | nil, error | nil):
\* "1..." the data {t: payload}, "3..." an error, anything else nothing.
parseBuildkiteAPC(sequence) ==
    LET first == IF sequence = <<>> THEN 0 ELSE sequence[1]
    IN  CASE first = 49 -> [kind |-> "data", data |-> {<<"t", sequence>>}, err |-> <<>>]
          [] first = 51 -> [kind |-> "error", data |-> {}, err |-> <<101, 114, 114>>]
          [] OTHER -> [kind |-> "nil", data |-> {}, err |-> <<>>]

\* "*** Error parsing custom element escape sequence: "
elementErrorText ==
    <<42, 42, 42, 32, 69, 114, 114, 111, 114, 32, 112, 97, 114, 115,
      105, 110, 103, 32, 99, 117, 115, 116, 111, 109, 32, 101, 108,
      101, 109, 101, 110, 116, 32, 101, 115, 99, 97, 112, 101, 32,
      115, 101, 113, 117, 101, 110, 99, 101, 58, 32>>

\* "*** Error parsing Buildkite APC ANSI escape sequence: "
apcErrorText ==
    <<42, 42, 42, 32, 69, 114, 114, 111, 114, 32, 112, 97, 114, 115,
      105, 110, 103, 32, 66, 117, 105, 108, 100, 107, 105, 116, 101,
      32, 65, 80, 67, 32, 65, 78, 83, 73, 32, 101, 115, 99, 97, 112,
      101, 32, 115, 101, 113, 117, 101, 110, 99, 101, 58, 32>>

(***************************************************************************)
(* The parser.  Offsets are 0-based as in the source; buffer[i] of the     *)
(* source is s.parser.buffer[i + 1].                                       *)
(***************************************************************************)
\* p.buffer[from:to]; a slice out of range panics.
sliceOK(s, from, to) == 0 <= from /\ from <= to /\ to <= Len(s.parser.buffer)

slice(s, from, to) == SubSeq(s.parser.buffer, from + 1, to)

\* The call is still running normally: no panic, no loop that cannot finish.
alive(s) == s.status = "ok"

handleCharset(s, char) == [s EXCEPT !.parser.mode = parserModeNormal]

\* The element or the error text of processOperatingSystemCommand.
renderElement(s1, r) ==
    IF r.kind = "error"
    THEN appendMany(appendMany(s1, elementErrorText), r.content)
    ELSE appendElement(s1, [elementType |-> r.elementType, content |-> r.content])

\* The newLine that ends an element on its own line.
endOwnLine(ownLine, s2) == IF ownLine /\ alive(s2) THEN newLine(s2) ELSE s2

\* processOperatingSystemCommand after parseElementSequence returned r.
processElement(s0, r) ==
    LET ownLine == r.kind # "element" \/ r.elementType # ELEMENT_LINK
        nl == IF s0.x # 0 THEN newLine(s0) ELSE s0
    IN  IF r.kind = "nil" THEN s0
        ELSE endOwnLine(ownLine,
                renderElement(IF ownLine
                              THEN screenClear(nl, nl.y, screenStartOfLine, screenEndOfLine)
                              ELSE s0, r))

processOperatingSystemCommand(s, end) ==
    IF ~sliceOK(s, s.parser.instructionStartedAt, end)
    THEN [s EXCEPT !.parser.mode = parserModeNormal, !.status = "panic"]
    ELSE processElement([s EXCEPT !.parser.mode = parserModeNormal],
                        parseElementSequence(slice(s, s.parser.instructionStartedAt, end)))

handleOSCEscape(s, char) ==
    IF char = 92 THEN processOperatingSystemCommand(s, s.parser.cursor - 1)
    ELSE [s EXCEPT !.parser.mode = parserModeOSC]

handleOperatingSystemCommand(s, char) ==
    CASE char = BEL -> processOperatingSystemCommand(s, s.parser.cursor)
      [] char = ESC -> [s EXCEPT !.parser.mode = parserModeOSCEsc]
      [] OTHER -> s

processApplicationProgramCommand(s, end) ==
    LET from == s.parser.instructionStartedAt
        s0 == [s EXCEPT !.parser.mode = parserModeNormal]
        r == parseBuildkiteAPC(slice(s, from, end))
    IN  IF ~sliceOK(s, from, end) THEN [s0 EXCEPT !.status = "panic"]
        ELSE IF r.kind = "error" THEN appendMany(appendMany(s0, apcErrorText), r.err)
        ELSE IF r.kind = "nil" THEN s0
        ELSE setLineMetadata(s0, bkNamespace, r.data)

handleAPCEscape(s, char) ==
    IF char = 92 THEN processApplicationProgramCommand(s, s.parser.cursor - 1)
    ELSE [s EXCEPT !.parser.mode = parserModeAPC]

handleApplicationProgramCommand(s, char) ==
    CASE char = BEL -> processApplicationProgramCommand(s, s.parser.cursor)
      [] char = ESC -> [s EXCEPT !.parser.mode = parserModeAPCEsc]
      [] OTHER -> s

\* addInstruction(): append the current instruction if it is nonempty.
addInstruction(s) ==
    LET from == s.parser.instructionStartedAt
        to == s.parser.cursor
        instruction == slice(s, from, to)
    IN  IF ~sliceOK(s, from, to) THEN [s EXCEPT !.status = "panic"]
        ELSE IF instruction # <<>>
             THEN [s EXCEPT !.parser.instructions = Append(@, instruction)]
        ELSE s

handleControlSequence(s, char0) ==
    LET char == ToUpper(char0)
        t == addInstruction(s)
    IN  CASE char = 63 \/ char \in 48..57 -> s
          [] char = 59 ->
                IF ~alive(t) THEN t
                ELSE [t EXCEPT !.parser.instructionStartedAt = s.parser.cursor + 1]
          [] char \in {65, 66, 67, 68, 69, 70, 71, 74, 75, 77, 81} ->
                IF ~alive(t) THEN t
                ELSE [applyEscape(t, char, t.parser.instructions)
                        EXCEPT !.parser.mode = parserModeNormal]
          [] char \in {72, 76} -> [s EXCEPT !.parser.mode = parserModeNormal]
          [] OTHER -> [s EXCEPT !.parser.cursor = s.parser.escapeStartedAt,
                                !.parser.mode = parserModeNormal]

\* handleNormal that enters Escape mode without recording where the ESC is.
handleNormal_noEscapeStart(s, char) ==
    CASE char = LF -> newLine(s)
      [] char = CR -> carriageReturn(s)
      [] char = BS -> backspace(s)
      [] char = ESC -> [s EXCEPT !.parser.mode = parserModeEscape]
      [] OTHER -> append(s, char)

handleNormal(s, char) ==
    CASE char = LF -> newLine(s)
      [] char = CR -> carriageReturn(s)
      [] char = BS -> backspace(s)
      [] char = ESC -> [s EXCEPT !.parser.escapeStartedAt = s.parser.cursor,
                                 !.parser.mode = parserModeEscape]
      [] OTHER -> append(s, char)

handleEscape(s, char) ==
    CASE char = 91 ->                                                      \* [
            [s EXCEPT !.parser.instructionStartedAt = s.parser.cursor + 1,
                      !.parser.instructions = <<>>,
                      !.parser.mode = parserModeControl]
      [] char = 93 ->                                                      \* ]
            [s EXCEPT !.parser.instructionStartedAt = s.parser.cursor + 1,
                      !.parser.mode = parserModeOSC]
      [] char \in {41, 40} ->                                              \* ) (
            [s EXCEPT !.parser.instructionStartedAt = s.parser.cursor + 1,
                      !.parser.mode = parserModeCharset]
      [] char = 95 ->                                                      \* _
            [s EXCEPT !.parser.instructionStartedAt = s.parser.cursor + 1,
                      !.parser.mode = parserModeAPC]
      [] char = 77 ->                                                      \* M
            [revNewLine(s) EXCEPT !.parser.mode = parserModeNormal]
      [] char = 55 ->                                                      \* 7
            [s EXCEPT !.parser.savePosition = [x |-> s.x, y |-> s.y],
                      !.parser.mode = parserModeNormal]
      [] char = 56 ->                                                      \* 8
            [s EXCEPT !.x = s.parser.savePosition.x,
                      !.y = s.parser.savePosition.y,
                      !.parser.mode = parserModeNormal]
      [] OTHER -> [s EXCEPT !.parser.cursor = s.parser.escapeStartedAt,
                            !.parser.mode = parserModeNormal]

\* The switch on p.mode in the loop of parseToScreen.
dispatch(s, char) ==
    CASE s.parser.mode = parserModeEscape -> handleEscape(s, char)
      [] s.parser.mode = parserModeControl -> handleControlSequence(s, char)
      [] s.parser.mode = parserModeOSC -> handleOperatingSystemCommand(s, char)
      [] s.parser.mode = parserModeOSCEsc -> handleOSCEscape(s, char)
      [] s.parser.mode = parserModeCharset -> handleCharset(s, char)
      [] s.parser.mode = parserModeAPC -> handleApplicationProgramCommand(s, char)
      [] s.parser.mode = parserModeAPCEsc -> handleAPCEscape(s, char)
      [] s.parser.mode = parserModeNormal -> handleNormal(s, char)

\* p.cursor += charLen, after a handler that returned.
advance(t, charLen) ==
    IF ~alive(t) THEN t ELSE [t EXCEPT !.parser.cursor = @ + charLen]

\* One iteration of the loop of parseToScreen: decode, dispatch, advance.
parseStep(s) ==
    LET d == DecodeRune(s.parser.buffer, s.parser.cursor)
    IN  advance(dispatch(s, d[1]), d[2])

RECURSIVE parseLoop(_)
parseLoop(s) ==
    IF ~alive(s) \/ s.parser.cursor >= Len(s.parser.buffer) THEN s
    ELSE parseLoop(parseStep(s))

\* dropDone leaving instructionStartedAt where it was.
dropDone_keepInstructionStart(t) ==
    LET done == IF t.parser.mode = parserModeNormal
                THEN t.parser.cursor ELSE t.parser.escapeStartedAt
    IN  IF ~alive(t) THEN t
        ELSE IF done < 0 \/ done > Len(t.parser.buffer) THEN [t EXCEPT !.status = "panic"]
        ELSE [t EXCEPT !.parser.buffer = SubSeq(@, done + 1, Len(@)),
                       !.parser.cursor = @ - done,
                       !.parser.escapeStartedAt = @ - done]

\* The end of parseToScreen: drop the completed portion of the buffer and
\* shift the three offsets by its length.
dropDone(t) ==
    LET done == IF t.parser.mode = parserModeNormal
                THEN t.parser.cursor ELSE t.parser.escapeStartedAt
    IN  IF ~alive(t) THEN t
        ELSE IF done < 0 \/ done > Len(t.parser.buffer) THEN [t EXCEPT !.status = "panic"]
        ELSE [t EXCEPT !.parser.buffer = SubSeq(@, done + 1, Len(@)),
                       !.parser.cursor = @ - done,
                       !.parser.instructionStartedAt = @ - done,
                       !.parser.escapeStartedAt = @ - done]

\* parseToScreen(input): take the input after the residue, run the loop,
\* then drop the completed portion of the buffer.
parseToScreen(s, input) ==
    dropDone(parseLoop([s EXCEPT !.parser.buffer = @ \o input]))

(***************************************************************************)
(* Construction and the public calls.                                      *)
(***************************************************************************)
defaultCols == 160
defaultLines == 100

\* setSizeError refusing a size equal to the maximum.
setSizeError_refuseMax(s, cols, lines) ==
    IF cols <= 0 \/ lines <= 0 THEN "negative dimension"
    ELSE IF s.maxColumns > 0 /\ cols >= s.maxColumns THEN "cols greater than max"
    ELSE IF s.maxLines > 0 /\ lines >= s.maxLines THEN "lines greater than max"
    ELSE "nil"

\* SetSize(cols, lines): the error, "nil" when the size is accepted.
setSizeError(s, cols, lines) ==
    IF cols <= 0 \/ lines <= 0 THEN "negative dimension"
    ELSE IF s.maxColumns > 0 /\ cols > s.maxColumns THEN "cols greater than max"
    ELSE IF s.maxLines > 0 /\ lines > s.maxLines THEN "lines greater than max"
    ELSE "nil"

SetSize(s, cols, lines) ==
    IF setSizeError(s, cols, lines) # "nil" THEN s
    ELSE [s EXCEPT !.cols = cols, !.lines = lines]

\* WithMaxSize(maxCols, maxLines): set the limits and fit the size in them.
WithMaxSize(s, maxCols, maxLines) ==
    [s EXCEPT !.maxColumns = maxCols,
              !.maxLines = maxLines,
              !.cols = IF maxCols > 0 THEN Min(@, maxCols) ELSE @,
              !.lines = IF maxLines > 0 THEN Min(@, maxLines) ELSE @]

\* The Screen NewScreen starts from, before the options.
zeroScreen ==
    [x |-> 0, y |-> 0, screen |-> <<>>, style |-> defaultStyle, urlBrush |-> <<>>,
     parser |-> [buffer |-> <<>>, mode |-> parserModeNormal, cursor |-> 0,
                 escapeStartedAt |-> 0, instructions |-> <<>>,
                 instructionStartedAt |-> 0,
                 savePosition |-> [x |-> 0, y |-> 0], lastTimestamp |-> 0],
     maxLines |-> 0, maxColumns |-> 0,
     cols |-> defaultCols, lines |-> defaultLines,
     hasScrollOutFunc |-> FALSE, scrolledOut |-> <<>>,
     LinesScrolledOut |-> 0, CursorUpOOB |-> 0, CursorDownOOB |-> 0,
     CursorFwdOOB |-> 0, CursorBackOOB |-> 0,
     status |-> "ok"]

\* NewScreen(opts...): the options applied in order; status "error" (no
\* Screen is returned) when one fails.
RECURSIVE applyOptions(_, _)
applyOptions(s, opts) ==
    IF opts = <<>> THEN s
    ELSE LET o == Head(opts)
         IN  IF o.opt = "WithSize"
             THEN IF setSizeError(s, o.a, o.b) # "nil" THEN [s EXCEPT !.status = "error"]
                  ELSE applyOptions(SetSize(s, o.a, o.b), Tail(opts))
             ELSE applyOptions(WithMaxSize(s, o.a, o.b), Tail(opts))

NewScreen(opts) == applyOptions(zeroScreen, opts)

\* Write(input): parse the input to the screen; returns (len(input), nil).
Write(s, input) == parseToScreen(s, input)

(***************************************************************************)
(* The behaviours: a Screen is constructed, then Write and SetSize are     *)
(* called on it, each call running to completion.                          *)
(***************************************************************************)
WithSizeOpt(w, h) == [opt |-> "WithSize", a |-> w, b |-> h]
WithMaxSizeOpt(c, l) == [opt |-> "WithMaxSize", a |-> c, b |-> l]

\* The constructions the model starts from: the options given to NewScreen
\* and whether the caller then sets ScrollOutFunc.
Constructions ==
    { <<<<>>, FALSE>>,
      <<<<WithSizeOpt(2, 2)>>, FALSE>>,
      <<<<WithSizeOpt(0, 1)>>, FALSE>>,
      <<<<WithMaxSizeOpt(0, 2)>>, FALSE>>,
      <<<<WithMaxSizeOpt(0, 2)>>, TRUE>>,
      <<<<WithSizeOpt(3, 1), WithMaxSizeOpt(3, 2)>>, FALSE>>,
      <<<<WithSizeOpt(3, 1), WithMaxSizeOpt(3, 2)>>, TRUE>>,
      <<<<WithMaxSizeOpt(2, 1)>>, TRUE>> }

\* The sizes SetSize is called with.
Sizes == { <<0, 2>>, <<1, 1>>, <<2, 3>> }

call(op, input, cols, lines) == [op |-> op, input |-> input, cols |-> cols, lines |-> lines]

Init ==
    \E c \in Constructions :
        /\ alive(NewScreen(c[1]))
        /\ scr = [NewScreen(c[1]) EXCEPT !.hasScrollOutFunc = c[2]]
        /\ prev = scr
        /\ last = call("NewScreen", <<>>, 0, 0)
        /\ ret = [n |-> 0, err |-> "nil"]
        /\ calls = 0

\* s.Write(input) with input drawn from the set inputs.  A call that panics
\* or never returns yields no value, and nothing is called after it.
WriteCall(inputs) ==
    /\ calls < MaxCalls
    /\ alive(scr)
    /\ \E input \in inputs :
        /\ scr' = Write(scr, input)
        /\ prev' = scr
        /\ last' = call("Write", input, 0, 0)
        /\ ret' = IF alive(scr') THEN [n |-> Len(input), err |-> "nil"]
                  ELSE [n |-> -1, err |-> "none"]
        /\ calls' = calls + 1

\* s.SetSize(cols, lines) with the size drawn from the set sizes.
SetSizeIn(sizes) ==
    /\ calls < MaxCalls
    /\ alive(scr)
    /\ \E sz \in sizes :
        /\ scr' = SetSize(scr, sz[1], sz[2])
        /\ prev' = scr
        /\ last' = call("SetSize", <<>>, sz[1], sz[2])
        /\ ret' = [n |-> 0, err |-> setSizeError(scr, sz[1], sz[2])]
        /\ calls' = calls + 1

SetSizeCall == SetSizeIn(Sizes)

(***************************************************************************)
(* The inputs Write is called with.                                        *)
(***************************************************************************)
\* The decimal digits of n >= 0, as bytes.
RECURSIVE digits(_)
digits(n) == IF n < 10 THEN <<48 + n>> ELSE digits(n \div 10) \o <<48 + (n % 10)>>

\* ESC [ param final
CSI(param, final) == <<ESC, 91>> \o param \o <<final>>

\* Text, multi-byte text, and escape sequences in the middle of text.
ParserInputs ==
    { <<97>>,                               \* a
      <<195, 169>>,                         \* e-acute, two bytes
      <<226, 130, 172, LF>>,                \* euro sign, three bytes, newline
      <<97, ESC, 91, 51, 49, 109, 98>>,     \* a ESC [ 3 1 m b
      <<97>> \o CSI(<<50>>, 74),            \* a, erase display 2
      CSI(<<49, 59, 50>>, 72),              \* position 1;2
      CSI(digits(MaxInt), 67),              \* forward MaxInt
      <<97, ESC, 93, 49, BEL>>,             \* a, OSC image ended by BEL
      <<ESC, 93, 50, 195, 169, ESC, 92, 97>>, \* OSC link, e-acute in it, ST, a
      <<97, ESC, 95, 49, ESC, 92>>,         \* a, APC data ended by ST
      <<ESC, 40, 66, ESC, 55, 97, ESC, 56>>,\* charset, save, a, restore
      <<ESC, 91, 50>>,                      \* an unfinished control sequence
      <<ESC, 93, 49>> }                     \* an unfinished OSC

\* Text, newlines, erasures, elements and metadata.
BufferInputs ==
    { <<97>>,                               \* a
      <<LF>>,
      <<LF, LF>>,
      <<97, LF, 98>>,                       \* a \n b
      CSI(<<>>, 65),                        \* up 1
      CSI(<<>>, 74),                        \* erase display 0
      CSI(<<49>>, 74),                      \* erase display 1
      CSI(<<50>>, 74),                      \* erase display 2
      CSI(<<51>>, 74),                      \* erase display 3
      CSI(<<49>>, 75),                      \* erase line 1
      <<ESC, 93, 49, BEL>>,                 \* OSC image
      <<ESC, 93, 50, BEL>>,                 \* OSC link
      <<ESC, 95, 49, BEL>> }                \* APC data

\* Text, newlines and every cursor motion.
CursorInputs ==
    { <<97>>,                               \* a
      <<97, 97, 97, 97>>,                   \* aaaa
      <<LF, LF>>,
      CSI(<<>>, 65),                        \* up 1
      CSI(<<50>>, 66),                      \* down 2
      CSI(<<>>, 67),                        \* forward 1
      CSI(digits(MaxInt), 67),              \* forward MaxInt
      CSI(digits(MaxInt), 66),              \* down MaxInt
      CSI(<<>>, 68),                        \* back 1
      CSI(<<>>, 69),                        \* next line 1
      CSI(<<50>>, 70),                      \* previous line 2
      CSI(<<50>>, 71),                      \* column 2
      CSI(<<49, 59, 50>>, 72) }             \* position 1;2

NextParser == WriteCall(ParserInputs) \/ SetSizeCall
NextBuffer == WriteCall(BufferInputs) \/ SetSizeCall
NextCursor == WriteCall(CursorInputs) \/ SetSizeCall

SpecParser == Init /\ [][NextParser]_vars
SpecBuffer == Init /\ [][NextBuffer]_vars
SpecCursor == Init /\ [][NextCursor]_vars

(***************************************************************************)
(* What the claims speak of.                                               *)
(***************************************************************************)
\* The screen state a caller can observe, and the parser's mode.
View(s) ==
    [screen |-> s.screen, x |-> s.x, y |-> s.y, style |-> s.style,
     LinesScrolledOut |-> s.LinesScrolledOut, scrolledOut |-> s.scrolledOut,
     CursorUpOOB |-> s.CursorUpOOB, CursorDownOOB |-> s.CursorDownOOB,
     CursorFwdOOB |-> s.CursorFwdOOB, CursorBackOOB |-> s.CursorBackOOB,
     mode |-> s.parser.mode, status |-> s.status]

\* What the parser carries to the next Write.  The two offsets are only
\* read inside an escape sequence.
Carried(s) ==
    [buffer |-> s.parser.buffer, cursor |-> s.parser.cursor, mode |-> s.parser.mode,
     instructions |-> IF s.parser.mode = parserModeControl
                      THEN s.parser.instructions ELSE <<>>,
     savePosition |-> s.parser.savePosition,
     escapeStartedAt |-> IF s.parser.mode = parserModeNormal
                         THEN 0 ELSE s.parser.escapeStartedAt,
     instructionStartedAt |-> IF s.parser.mode = parserModeNormal
                              THEN 0 ELSE s.parser.instructionStartedAt]

Before(input, i) == SubSeq(input, 1, i)
After(input, i) == SubSeq(input, i + 1, Len(input))

\* Write(p) then Write(q), q not being written if Write(p) did not return.
WriteTwice(s, p, q) == LET mid == Write(s, p) IN IF alive(mid) THEN Write(mid, q) ELSE mid

\* The last call was Write, on a parser outside any escape sequence.
WroteFromNormal == last.op = "Write" /\ prev.parser.mode = parserModeNormal

\* input is ESC [ parameters final, with final among finals.
IsCSI(input, finals) ==
    /\ Len(input) >= 3
    /\ input[1] = ESC
    /\ input[2] = 91
    /\ input[Len(input)] \in finals
    /\ \A j \in 3..(Len(input) - 1) : input[j] \in (48..57) \cup {59}

Params(input) == SubSeq(input, 3, Len(input) - 1)

\* The last Write was exactly one control sequence, taken from Normal mode.
WroteCSI(finals) == WroteFromNormal /\ IsCSI(last.input, finals)

(***************************************************************************)
(* C1.  Write(p) then Write(q) leaves the same screen state as the single  *)
(* Write(p ++ q), for every split of the input, from every reachable       *)
(* state.  Fails: a codepoint cut by the split is decoded byte by byte.    *)
(***************************************************************************)
C1_SplitEquivalence ==
    last.op = "Write" =>
        \A i \in 0..Len(last.input) :
            View(WriteTwice(prev, Before(last.input, i), After(last.input, i)))
                = View(scr)

(***************************************************************************)
(* C2.  When Write(p) ends inside an escape sequence, the residue is the   *)
(* fed bytes from the ESC on, the offsets are relative to it, and the next *)
(* Write(q) ends in the same screen and parser state as Write(p ++ q).     *)
(***************************************************************************)
C2_ResumeMidEscape ==
    last.op = "Write" =>
        \A i \in 0..Len(last.input) :
            LET mid == Write(prev, Before(last.input, i))
                fed == prev.parser.buffer \o Before(last.input, i)
                kept == mid.parser.buffer
                end == Write(mid, After(last.input, i))
            IN  (alive(mid) /\ mid.parser.mode # parserModeNormal) =>
                    /\ kept # <<>>
                    /\ kept[1] = ESC
                    /\ kept = SubSeq(fed, Len(fed) - Len(kept) + 1, Len(fed))
                    /\ mid.parser.escapeStartedAt = 0
                    /\ mid.parser.cursor = Len(kept)
                    /\ View(end) = View(scr)
                    /\ alive(scr) => Carried(end) = Carried(scr)

\* A Write whose input can be cut inside an escape sequence that follows
\* text, and that completes the sequence with an effect on the screen.
C2_Witness ==
    /\ last.op = "Write"
    /\ alive(scr)
    /\ scr.parser.mode = parserModeNormal
    /\ View(scr) # View(prev)
    /\ \E i \in 1..(Len(last.input) - 1) :
        LET mid == Write(prev, Before(last.input, i))
        IN  /\ mid.parser.mode = parserModeControl
            /\ mid.parser.instructionStartedAt < mid.parser.cursor
            /\ Len(mid.parser.buffer) < Len(prev.parser.buffer) + i
            /\ mid.screen # prev.screen

(***************************************************************************)
(* C3.  Write returns (len(input), nil) and never fails: no index or slice *)
(* out of range, no loop that cannot finish.  Fails: a forward motion that *)
(* overflows leaves x negative, and the next cell write is out of range.   *)
(***************************************************************************)
C3_WriteNeverFails ==
    last.op = "Write" =>
        /\ alive(scr)
        /\ ret = [n |-> Len(last.input), err |-> "nil"]

(***************************************************************************)
(* C4.  With maxLines > 0 the buffer never holds more than maxLines lines. *)
(***************************************************************************)
C4_BufferWithinMaxLines ==
    scr.maxLines > 0 => Len(scr.screen) <= scr.maxLines

\* A Write that filled the capped buffer and scrolled a line out.
C4_Witness ==
    /\ last.op = "Write"
    /\ scr.maxLines > 0
    /\ Len(scr.screen) = scr.maxLines
    /\ scr.LinesScrolledOut > prev.LinesScrolledOut

(***************************************************************************)
(* C5.  Each eviction adds one to LinesScrolledOut and, if ScrollOutFunc   *)
(* is set, calls it once with the rendering of the line that was first in  *)
(* the buffer; lines leave oldest first, none twice, none skipped.  Over a *)
(* Write with k evictions: the callback got k more renderings (none when   *)
(* unset), the lines that were scroll-back before the Write come first and *)
(* in buffer order, and, when the Write is a single character, all k are   *)
(* the old buffer's lines in order, then the fresh lines added after them. *)
(***************************************************************************)
C5_ScrollOutOncePerEviction ==
    (last.op = "Write" /\ alive(scr)) =>
        LET k == scr.LinesScrolledOut - prev.LinesScrolledOut
            n == Len(prev.scrolledOut)
            passed == SubSeq(scr.scrolledOut, n + 1, Len(scr.scrolledOut))
        IN  /\ k >= 0
            /\ Len(scr.scrolledOut) >= n
            /\ SubSeq(scr.scrolledOut, 1, n) = prev.scrolledOut
            /\ Len(passed) = IF scr.hasScrollOutFunc THEN k ELSE 0
            /\ k > 0 => scr.maxLines > 0 /\ Len(scr.screen) = scr.maxLines
            /\ scr.hasScrollOutFunc =>
                \A j \in 1..Min(k, top(prev)) : passed[j] = asHTML(prev.screen[j])
            /\ (scr.hasScrollOutFunc /\ prev.parser.mode = parserModeNormal
                    /\ Len(last.input) = 1) =>
                \A j \in 1..k :
                    passed[j] = asHTML(IF j <= Len(prev.screen)
                                       THEN prev.screen[j] ELSE newScreenLine)

\* One character evicted two lines, the first of them with content, and
\* the callback saw them.
C5_Witness ==
    /\ WroteFromNormal
    /\ alive(scr)
    /\ Len(last.input) = 1
    /\ scr.hasScrollOutFunc
    /\ scr.LinesScrolledOut = prev.LinesScrolledOut + 2
    /\ prev.screen # <<>>
    /\ prev.screen[1].nodes # <<>>
    /\ Len(scr.scrolledOut) = Len(prev.scrolledOut) + 2

(***************************************************************************)
(* C6.  After any cursor-motion command (CSI A B C D E F G H) completes,   *)
(* 0 <= x < max(cols, maxColumns if set) and 0 <= y < lines.  Fails: the   *)
(* relative motions move from where the cursor is, also when it is past    *)
(* the viewport, and clamp on one side only; and a sum can overflow.       *)
(***************************************************************************)
C6_CursorInViewport ==
    WroteCSI(65..72) =>
        /\ 0 <= scr.x
        /\ scr.x < Max(scr.cols, IF scr.maxColumns > 0 THEN scr.maxColumns ELSE scr.cols)
        /\ 0 <= scr.y
        /\ scr.y < scr.lines

(***************************************************************************)
(* C7.  ESC [ p1 ; p2 H written through Write puts the cursor at           *)
(* y = clamp(p1-1, 0, lines-1), x = clamp(p2-1, 0, cols-1).  Fails: the    *)
(* parser takes the final H for Set Mode and never applies it.             *)
(***************************************************************************)
C7_CursorPosition ==
    \A p1, p2 \in 1..3 :
        (WroteFromNormal /\ last.input = CSI(digits(p1) \o <<59>> \o digits(p2), 72)) =>
            /\ scr.y = Min(Max(p1 - 1, 0), scr.lines - 1)
            /\ scr.x = Min(Max(p2 - 1, 0), scr.cols - 1)

(***************************************************************************)
(* C8.  A relative cursor motion adds exactly one to its own counter (Up   *)
(* and Prev-Line to CursorUpOOB, Down and Next-Line to CursorDownOOB,      *)
(* Forward to CursorFwdOOB, Back to CursorBackOOB) when the unclamped      *)
(* target is outside the viewport and the cursor is clamped to the bound,  *)
(* and nothing otherwise; no other counter changes.                        *)
(***************************************************************************)
C8_OneCountPerClamp ==
    (WroteCSI(65..70) /\ 59 \notin {last.input[j] : j \in 1..Len(last.input)}) =>
        LET final == last.input[Len(last.input)]
            n == ansiInt(Params(last.input))
            ty == IF final \in {65, 70} THEN prev.y - n
                  ELSE IF final \in {66, 69} THEN prev.y + n ELSE prev.y
            tx == IF final = 67 THEN prev.x + n
                  ELSE IF final = 68 THEN prev.x - n ELSE prev.x
            outY == ty < 0 \/ ty >= prev.lines
            outX == tx < 0 \/ tx >= prev.cols
            clampedY(bound) == outY /\ scr.y = bound /\ ty # bound
            clampedX(bound) == outX /\ scr.x = bound /\ tx # bound
            one(b) == IF b THEN 1 ELSE 0
        IN  /\ scr.CursorUpOOB - prev.CursorUpOOB
                = one(final \in {65, 70} /\ clampedY(0))
            /\ scr.CursorDownOOB - prev.CursorDownOOB
                = one(final \in {66, 69} /\ clampedY(prev.lines - 1))
            /\ scr.CursorFwdOOB - prev.CursorFwdOOB
                = one(final = 67 /\ clampedX(prev.cols - 1))
            /\ scr.CursorBackOOB - prev.CursorBackOOB
                = one(final = 68 /\ clampedX(0))
            /\ scr.LinesScrolledOut = prev.LinesScrolledOut

\* A Back that was clamped at column 0 and counted, after an earlier motion
\* had been clamped and counted too.
C8_Witness ==
    /\ WroteCSI({68})
    /\ scr.x = 0
    /\ prev.x - ansiInt(Params(last.input)) < 0
    /\ scr.CursorBackOOB = prev.CursorBackOOB + 1
    /\ prev.CursorUpOOB + prev.CursorDownOOB + prev.CursorFwdOOB > 0

(***************************************************************************)
(* C9.  CSI 2 J leaves the buffer's first top() lines, unchanged, and      *)
(* CSI 3 J leaves no line; both put the cursor at (0,0).                   *)
(***************************************************************************)
C9_EraseDisplay ==
    /\ (WroteFromNormal /\ last.input = CSI(<<50>>, 74)) =>
            /\ scr.screen = SubSeq(prev.screen, 1, top(prev))
            /\ scr.x = 0
            /\ scr.y = 0
    /\ (WroteFromNormal /\ last.input = CSI(<<51>>, 74)) =>
            /\ scr.screen = <<>>
            /\ scr.x = 0
            /\ scr.y = 0

\* CSI 2 J on a buffer with scroll-back and a cursor away from the origin.
C9_Witness ==
    /\ WroteFromNormal
    /\ last.input = CSI(<<50>>, 74)
    /\ top(prev) > 0
    /\ prev.screen[1].nodes # <<>>
    /\ prev.x > 0
    /\ scr.screen # <<>>

(***************************************************************************)
(* C10.  In every line, a cell whose style has the element bit holds an    *)
(* index into that line's elements.                                        *)
(***************************************************************************)
C10_ElementIndexValid ==
    \A l \in 1..Len(scr.screen) :
        \A i \in 1..Len(scr.screen[l].nodes) :
            LET cell == scr.screen[l].nodes[i]
            IN  cell.style.element =>
                    /\ 0 <= cell.blob
                    /\ cell.blob < Len(scr.screen[l].elements)

\* An element cell on the screen after a line was scrolled out and recycled.
C10_Witness ==
    /\ scr.LinesScrolledOut > 0
    /\ \E l \in 1..Len(scr.screen) :
        \E i \in 1..Len(scr.screen[l].nodes) :
            scr.screen[l].nodes[i].style.element

(***************************************************************************)
(* Resizing: every way SetSize can refuse, on screens with content.        *)
(***************************************************************************)
AllSizes ==
    { <<0, 2>>, <<2, 0>>, <<-1, -1>>, <<1, 1>>, <<2, 2>>, <<3, 1>>,
      <<3, 3>>, <<4, 1>>, <<161, 101>> }

SizeInputs ==
    { <<97, 98, 99>>,                       \* abc
      <<97, LF, 98>>,                       \* a \n b
      <<LF, LF>>,
      CSI(<<>>, 65) }                       \* up 1

NextSize == WriteCall(SizeInputs) \/ SetSizeIn(AllSizes)
SpecSize == Init /\ [][NextSize]_vars

(***************************************************************************)
(* C11.  SetSize(cols, lines) returns an error exactly when cols <= 0, or  *)
(* lines <= 0, or maxColumns > 0 and cols > maxColumns, or maxLines > 0    *)
(* and lines > maxLines.  On error nothing changes; on success cols and    *)
(* lines take the new values and nothing else changes.                     *)
(***************************************************************************)
C11_SetSize ==
    last.op = "SetSize" =>
        LET refused == \/ last.cols <= 0
                       \/ last.lines <= 0
                       \/ (prev.maxColumns > 0 /\ last.cols > prev.maxColumns)
                       \/ (prev.maxLines > 0 /\ last.lines > prev.maxLines)
        IN  /\ (ret.err # "nil") <=> refused
            /\ refused => scr = prev
            /\ ~refused => scr = [prev EXCEPT !.cols = last.cols, !.lines = last.lines]

\* A resize refused for its width alone, on a screen with content whose
\* cursor is away from the origin and which an earlier resize had changed.
C11_Witness ==
    /\ last.op = "SetSize"
    /\ ret.err # "nil"
    /\ last.cols > 0
    /\ last.lines > 0
    /\ prev.maxLines > 0
    /\ last.lines <= prev.maxLines
    /\ prev.maxColumns > 0
    /\ last.cols > prev.maxColumns
    /\ scr.screen # <<>>
    /\ scr.x > 0

(***************************************************************************)
(* Escape sequences that are not completed: an unrecognized character      *)
(* ends them, of one byte or of several.                                   *)
(***************************************************************************)
AbortInputs ==
    { <<97>>,                               \* a
      <<195, 169>>,                         \* e-acute
      <<ESC, 91, 49, 122>>,                 \* ESC [ 1 z
      <<ESC, 91, 49, 59, 50, 122, 97>>,     \* ESC [ 1 ; 2 z a
      <<ESC, 91, 49, 195, 169>>,            \* ESC [ 1 e-acute
      <<ESC, 91, 226, 130, 172>>,           \* ESC [ euro sign
      <<ESC, 122>>,                         \* ESC z
      <<ESC, 195, 169>>,                    \* ESC e-acute
      <<ESC, 240, 157, 132, 158, 97>>,      \* ESC U+1D11E (four bytes) a
      <<ESC, ESC, 91, 67>>,                 \* ESC, then forward 1
      <<ESC, 91, 51>>,                      \* an unfinished control sequence
      <<97>> \o CSI(digits(MaxInt), 67) }   \* a, forward MaxInt

NextAbort == WriteCall(AbortInputs) \/ SetSizeCall
SpecAbort == Init /\ [][NextAbort]_vars

\* The bytes a control sequence's parameters are made of: ? 0-9 ;
ParamBytes == (48..57) \cup {59, 63}

\* The final characters handleControlSequence knows, upper case.
KnownFinals == {65, 66, 67, 68, 69, 70, 71, 72, 74, 75, 76, 77, 81}

\* The characters that start an escape handleEscape knows: [ ] ( ) _ M 7 8
KnownEscapes == {91, 93, 40, 41, 95, 77, 55, 56}

\* Position (1-based) of the first byte after ESC [ that is no parameter
\* byte; 0 if there is none.
FinalAt(input) ==
    LET js == {j \in 3..Len(input) : input[j] \notin ParamBytes}
    IN  IF js = {} THEN 0 ELSE CHOOSE j \in js : \A i \in js : j <= i

\* input is ESC [ parameters c, where c is one whole character, printable,
\* that handleControlSequence does not know.
IsAbortedCSI(input) ==
    /\ Len(input) >= 3
    /\ input[1] = ESC
    /\ input[2] = 91
    /\ FinalAt(input) # 0
    /\ LET d == DecodeRune(input, FinalAt(input) - 1)
       IN  /\ d[2] = Len(input) - FinalAt(input) + 1
           /\ d[1] # RuneError
           /\ d[1] > 32
           /\ ToUpper(d[1]) \notin KnownFinals

\* input is ESC c, where c is one whole character, printable, that starts
\* no escape handleEscape knows.
IsFalseAlarm(input) ==
    /\ Len(input) >= 2
    /\ input[1] = ESC
    /\ LET d == DecodeRune(input, 1)
       IN  /\ d[2] = Len(input) - 1
           /\ d[1] # RuneError
           /\ d[1] > 32
           /\ d[1] \notin KnownEscapes

(***************************************************************************)
(* C12.  A control sequence aborted by an unrecognized character loses     *)
(* only its ESC: the bytes after the ESC are processed, in order, as       *)
(* Normal-mode input, and the parser ends in Normal mode.  Fails: the      *)
(* parser resumes charLen bytes after the ESC, charLen being the length    *)
(* of the aborting character.                                              *)
(***************************************************************************)
C12_AbortedCSILosesOnlyESC ==
    (WroteFromNormal /\ IsAbortedCSI(last.input)) =>
        /\ scr.parser.mode = parserModeNormal
        /\ View(scr) = View(Write(prev, Tail(last.input)))

(***************************************************************************)
(* C13.  ESC followed by a character that starts no known escape: the     *)
(* parser returns to Normal mode and the character is appended to the      *)
(* screen once, as if it had been written without the ESC, whatever its    *)
(* encoded length.  Fails: the parser resumes charLen bytes after the ESC, *)
(* past the first byte of a longer character.                              *)
(***************************************************************************)
C13_FalseAlarmKeepsCharacter ==
    (WroteFromNormal /\ IsFalseAlarm(last.input)) =>
        /\ scr.parser.mode = parserModeNormal
        /\ View(scr) = View(Write(prev, Tail(last.input)))

(***************************************************************************)
(* Absolute and relative cursor motions that reach past the viewport.      *)
(***************************************************************************)
ClampInputs ==
    { <<97>>,                               \* a
      <<97, 97, 97, 97>>,                   \* aaaa
      <<LF, LF>>,
      CSI(<<>>, 71),                        \* column 1
      CSI(<<48>>, 71),                      \* column 0
      CSI(<<50>>, 71),                      \* column 2
      CSI(<<57>>, 71),                      \* column 9
      CSI(digits(defaultCols + 40), 71),    \* column 200
      CSI(<<>>, 72),                        \* position 1;1
      CSI(<<57, 59, 57>>, 72),              \* position 9;9
      CSI(<<57>>, 67),                      \* forward 9
      CSI(<<57>>, 65),                      \* up 9
      CSI(<<57>>, 69) }                     \* next line 9

NextClamp == WriteCall(ClampInputs) \/ SetSizeCall
SpecClamp == Init /\ [][NextClamp]_vars

\* The sum of the four out-of-bounds counters.
OOB(s) == s.CursorUpOOB + s.CursorDownOOB + s.CursorFwdOOB + s.CursorBackOOB

\* The four counters did not change in the last call.
CountersKept ==
    /\ scr.CursorUpOOB = prev.CursorUpOOB
    /\ scr.CursorDownOOB = prev.CursorDownOOB
    /\ scr.CursorFwdOOB = prev.CursorFwdOOB
    /\ scr.CursorBackOOB = prev.CursorBackOOB

EraseInputs ==
    { <<97, 98, 99>>,                                       \* abc
      <<97, 98, 99, CR>>,                                   \* abc \r
      <<LF, LF>>,
      <<97, 98, LF, 99, 100, LF, 101, 102, LF, 103, 104>>   \* ab\ncd\nef\ngh,
            \o CSI(<<>>, 65) \o CSI(<<>>, 68),              \*   up 1, back 1
      CSI(<<>>, 67),                                        \* forward 1
      CSI(<<>>, 65),                                        \* up 1
      CSI(<<49>>, 75),                                      \* erase line 1
      CSI(<<>>, 74),                                        \* erase display
      CSI(<<48>>, 74),                                      \* erase display 0
      CSI(<<49>>, 74),                                      \* erase display 1
      <<97>> \o CSI(digits(MaxInt), 67) }                   \* a, forward MaxInt

NextErase == WriteCall(EraseInputs) \/ SetSizeCall
SpecErase == Init /\ [][NextErase]_vars

\* The buffer row (0-based) the cursor of s is on.
Row(s) == top(s) + s.y

\* There is a line at the cursor of s.
OnLine(s) == currentLine(s) # 0

\* The cells of the line at the cursor of s.
CursorCells(s) == s.screen[currentLine(s)].nodes

(***************************************************************************)
(* C15, as claimed.  CSI 1 K on an existing line sets cells 0..x to the    *)
(* empty cell and preserves the line's length for every cursor column x,   *)
(* also at or beyond the last cell; cells after x are unchanged.           *)
(***************************************************************************)
C15_EraseLine1KeepsLength ==
    (WroteFromNormal /\ last.input = CSI(<<49>>, 75) /\ OnLine(prev)) =>
        /\ Len(CursorCells(scr)) = Len(CursorCells(prev))
        /\ \A i \in 1..Len(CursorCells(scr)) :
                CursorCells(scr)[i] =
                    IF i - 1 <= prev.x THEN emptyNode ELSE CursorCells(prev)[i]

(***************************************************************************)
(* C15, amended.  CSI 1 K on an existing line of len cells: when           *)
(* 0 <= x < len-1, cells 0..x become the empty cell, the cells after x     *)
(* and the length are unchanged; when x >= len-1, the cursor at or beyond  *)
(* the last cell, the line is left with no cells; when x < 0 the line is   *)
(* unchanged.  Other lines and the cursor are unchanged.                   *)
(***************************************************************************)
C15_EraseLine1 ==
    (WroteFromNormal /\ last.input = CSI(<<49>>, 75) /\ OnLine(prev)) =>
        LET old == CursorCells(prev)
            new == IF prev.x < 0 THEN old
                   ELSE IF prev.x >= Len(old) - 1 THEN <<>>
                   ELSE [i \in 1..Len(old) |->
                            IF i - 1 <= prev.x THEN emptyNode ELSE old[i]]
        IN  /\ scr.screen = [prev.screen EXCEPT ![currentLine(prev)].nodes = new]
            /\ scr.x = prev.x
            /\ scr.y = prev.y

\* CSI 1 K with the cursor inside the line, cells with content on both
\* sides of it.
C15_Witness ==
    /\ WroteFromNormal
    /\ last.input = CSI(<<49>>, 75)
    /\ OnLine(prev)
    /\ prev.x >= 1
    /\ prev.x < Len(CursorCells(prev)) - 1
    /\ CursorCells(prev)[1] # emptyNode
    /\ CursorCells(scr)[1] = emptyNode
    /\ CursorCells(scr)[Len(CursorCells(scr))] # emptyNode

\* input is CSI J or CSI 0 J.
IsEraseDisplay0(input) == input \in {CSI(<<>>, 74), CSI(<<48>>, 74)}

(***************************************************************************)
(* C16.  CSI J or CSI 0 J with a line at the cursor row r truncates that   *)
(* line at x and the buffer to r+1 lines, leaving lines 0..r-1 as they     *)
(* were; with no line at row r the buffer is unchanged.  The cursor is     *)
(* unchanged either way.                                                   *)
(***************************************************************************)
C16_EraseDisplay0 ==
    (WroteFromNormal /\ IsEraseDisplay0(last.input)) =>
        /\ scr.x = prev.x
        /\ scr.y = prev.y
        /\ IF OnLine(prev)
           THEN /\ Len(scr.screen) = Row(prev) + 1
                /\ \A i \in 1..Row(prev) : scr.screen[i] = prev.screen[i]
                /\ scr.screen[Row(prev) + 1] =
                        [prev.screen[Row(prev) + 1] EXCEPT !.nodes =
                            SubSeq(@, 1, Min(Max(prev.x, 0), Len(@)))]
           ELSE scr.screen = prev.screen

\* CSI J / CSI 0 J with the cursor inside a line that has lines above and
\* below it: cells and lines were removed.
C16_Witness ==
    /\ WroteFromNormal
    /\ IsEraseDisplay0(last.input)
    /\ OnLine(prev)
    /\ Row(prev) >= 1
    /\ Row(prev) + 1 < Len(prev.screen)
    /\ prev.x >= 1
    /\ prev.x < Len(CursorCells(prev))
    /\ Len(scr.screen) = Row(prev) + 1
    /\ Len(CursorCells(scr)) = prev.x

(***************************************************************************)
(* C17.  CSI 1 J leaves the cursor, the number of buffer lines, every      *)
(* scroll-back line and every viewport line below the cursor unchanged;    *)
(* the viewport rows above the cursor remain, with zero cells.             *)
(***************************************************************************)
C17_EraseDisplay1 ==
    (WroteFromNormal /\ last.input = CSI(<<49>>, 74)) =>
        /\ scr.x = prev.x
        /\ scr.y = prev.y
        /\ Len(scr.screen) = Len(prev.screen)
        /\ \A i \in 1..Len(prev.screen) :
            /\ i - 1 < top(prev) => scr.screen[i] = prev.screen[i]
            /\ i - 1 > Row(prev) => scr.screen[i] = prev.screen[i]
            /\ (i - 1 >= top(prev) /\ i - 1 < Row(prev)) =>
                    scr.screen[i].nodes = <<>>

\* CSI 1 J on a screen with scroll-back, with written rows above and below
\* the cursor row.
C17_Witness ==
    /\ WroteFromNormal
    /\ last.input = CSI(<<49>>, 74)
    /\ top(prev) >= 1
    /\ prev.screen[1].nodes # <<>>
    /\ prev.y >= 1
    /\ Row(prev) + 1 < Len(prev.screen)
    /\ prev.screen[Row(prev)].nodes # <<>>
    /\ scr.screen[Row(prev)].nodes = <<>>
    /\ scr.screen[Len(scr.screen)].nodes # <<>>

(***************************************************************************)
(* Private control sequences: every final of handleControlSequence with a  *)
(* first instruction that starts with "?", after text has been written.    *)
(***************************************************************************)
PrivateInputs ==
    { <<97, 98, LF, 99, 100>>,              \* ab \n cd
      <<97, 98, 99, CR>>,                   \* abc \r
      CSI(<<63>>, 65),                      \* ESC [ ? A
      CSI(<<63, 53>>, 66),                  \* ESC [ ? 5 B
      CSI(<<59, 63, 50>>, 67),              \* ESC [ ; ? 2 C
      CSI(<<63, 49, 59, 50>>, 68),          \* ESC [ ? 1 ; 2 D
      CSI(<<63>>, 69),                      \* ESC [ ? E
      CSI(<<63>>, 70),                      \* ESC [ ? F
      CSI(<<63, 51>>, 71),                  \* ESC [ ? 3 G
      CSI(<<63, 50>>, 74),                  \* ESC [ ? 2 J
      CSI(<<63, 50>>, 75),                  \* ESC [ ? 2 K
      CSI(<<63, 51, 49>>, 77),              \* ESC [ ? 3 1 M
      CSI(<<63>>, 81) }                     \* ESC [ ? Q

NextPrivate == WriteCall(PrivateInputs) \/ SetSizeCall
SpecPrivate == Init /\ [][NextPrivate]_vars

\* The finals that handleControlSequence hands to applyEscape.
AppliedFinals == {65, 66, 67, 68, 69, 70, 71, 74, 75, 77, 81}

\* input is ESC [ parameters final, with final among AppliedFinals, and the
\* first non-empty parameter starts with "?".
IsPrivateCSI(input) ==
    /\ Len(input) >= 4
    /\ input[1] = ESC
    /\ input[2] = 91
    /\ input[Len(input)] \in AppliedFinals
    /\ \A j \in 3..(Len(input) - 1) : input[j] \in (48..57) \cup {59, 63}
    /\ \E j \in 3..(Len(input) - 1) :
            /\ input[j] = 63
            /\ \A k \in 3..(j - 1) : input[k] = 59

\* The same sequence without its "?" bytes.
Unprefixed(input) == SelectSeq(input, LAMBDA b : b # 63)

(***************************************************************************)
(* C18.  A control sequence whose first non-empty parameter begins with    *)
(* "?" changes nothing on the screen, whatever its final among             *)
(* A B C D E F G J K M Q: buffer, cursor, style and the four counters are  *)
(* unchanged, and the parser is back in Normal mode.                       *)
(***************************************************************************)
C18_PrivateSequenceIgnored ==
    (WroteFromNormal /\ IsPrivateCSI(last.input)) =>
        /\ alive(scr)
        /\ scr.screen = prev.screen
        /\ scr.x = prev.x
        /\ scr.y = prev.y
        /\ scr.style = prev.style
        /\ CountersKept
        /\ View(scr) = View(prev)
        /\ scr.parser.mode = parserModeNormal

\* A private sequence was written where the same sequence without the "?"
\* changes the screen.
C18_Witness ==
    /\ WroteFromNormal
    /\ IsPrivateCSI(last.input)
    /\ prev.screen # <<>>
    /\ View(Write(prev, Unprefixed(last.input))) # View(prev)
    /\ View(scr) = View(prev)

(***************************************************************************)
(* currentLineForWriting, one loop iteration at a time.  Writes and        *)
(* SetSize bring the Screen to a state with the cursor at y >= 0; then the *)
(* function is entered, as the next write would enter it: the allocation   *)
(* loop runs iteration by iteration until there is a line at the cursor,   *)
(* and the padding loop follows.                                           *)
(***************************************************************************)
AllocInputs ==
    { <<97>>,                               \* a
      <<97, LF, 98, LF, 99>>,               \* a \n b \n c
      <<LF>>,
      <<LF, LF, LF, LF, LF, LF>>,           \* far below the viewport
      CSI(<<51>>, 67),                      \* forward 3
      CSI(<<>>, 65),                        \* up 1
      CSI(<<57>>, 66),                      \* down 9
      CSI(<<>>, 74),                        \* erase display
      CSI(<<50>>, 74) }                     \* erase display 2

\* currentLineForWriting has been entered.
InCurrentLineForWriting == last.op \in {"allocStep", "padLine"}

AllocWrite == ~InCurrentLineForWriting /\ WriteCall(AllocInputs)

AllocSetSize == ~InCurrentLineForWriting /\ SetSizeCall

\* One iteration of "for s.currentLine() == nil".
AllocStepCall ==
    /\ alive(scr)
    /\ last.op # "padLine"
    /\ scr.y >= 0
    /\ currentLine(scr) = 0
    /\ scr' = allocStep(scr)
    /\ prev' = scr
    /\ last' = call("allocStep", <<>>, 0, 0)
    /\ UNCHANGED <<ret, calls>>

\* The loop has ended: "line := s.currentLine()" and the padding loop.
PadLineCall ==
    /\ alive(scr)
    /\ last.op # "padLine"
    /\ scr.y >= 0
    /\ currentLine(scr) # 0
    /\ scr' = padLine(scr)
    /\ prev' = scr
    /\ last' = call("padLine", <<>>, 0, 0)
    /\ UNCHANGED <<ret, calls>>

NextAlloc == AllocWrite \/ AllocSetSize \/ AllocStepCall \/ PadLineCall
SpecAlloc == Init /\ [][NextAlloc]_vars

\* top() + y - len(buffer): how far the cursor row is past the last line.
Distance(s) == top(s) + s.y - Len(s.screen)

(***************************************************************************)
(* C19.  From a state with y >= 0, each iteration of the allocation loop   *)
(* of currentLineForWriting either appends a line (the buffer grows by     *)
(* one) or evicts one and rotates (the length is unchanged), y never       *)
(* increases, and the distance top() + y - len(buffer), which is >= 0      *)
(* while the loop runs, strictly decreases: the loop terminates.  On exit  *)
(* the cursor line exists, 0 <= y < min(lines, len(buffer)), and after the *)
(* padding that line has at least x+1 cells.                               *)
(***************************************************************************)
C19_AllocationLoopTerminates ==
    /\ last.op = "allocStep" =>
        /\ alive(scr)
        /\ \/ /\ Len(scr.screen) = Len(prev.screen) + 1
              /\ scr.LinesScrolledOut = prev.LinesScrolledOut
              /\ SubSeq(scr.screen, 1, Len(prev.screen)) = prev.screen
           \/ /\ Len(scr.screen) = Len(prev.screen)
              /\ scr.LinesScrolledOut = prev.LinesScrolledOut + 1
              /\ SubSeq(scr.screen, 1, Len(scr.screen) - 1) = Tail(prev.screen)
        /\ scr.y <= prev.y
        /\ scr.y >= 0
        /\ Distance(prev) >= 0
        /\ Distance(scr) < Distance(prev)
        /\ currentLine(scr) # 0 =>
                scr.y < Min(scr.lines, Len(scr.screen))
    /\ last.op = "padLine" =>
        /\ alive(scr)
        /\ currentLine(scr) # 0
        /\ currentLine(scr) = currentLine(prev)
        /\ scr.y = prev.y
        /\ scr.y >= 0
        /\ scr.y < Min(scr.lines, Len(scr.screen))
        /\ Len(CursorCells(scr)) >= scr.x + 1

\* The loop has ended by an evicting iteration, after three or more
\* evictions in this one run of the loop: the cursor was far below the
\* viewport of a Screen with maxLines.
C19_Witness ==
    /\ last.op = "allocStep"
    /\ calls = 1
    /\ currentLine(scr) # 0
    /\ scr.LinesScrolledOut = prev.LinesScrolledOut + 1
    /\ scr.LinesScrolledOut >= 3
    /\ scr.maxLines > 0

(***************************************************************************)
(* C20.  Write always terminates: for every input and every parser state   *)
(* the loop of parseToScreen ends, with cursor = len(buffer).  Fails: the  *)
(* loop's handlers do not always return.  After a downward motion that     *)
(* overflows, y is negative, and the next character written never leaves   *)
(* the allocation loop of currentLineForWriting.                           *)
(***************************************************************************)
C20_WriteTerminates ==
    last.op = "Write" =>
        /\ scr.status # "hang"
        /\ alive(scr) => scr.parser.cursor = Len(scr.parser.buffer)

(***************************************************************************)
(* C21.  The cursor coordinates are never negative: x >= 0 and y >= 0 in   *)
(* every state that Write and SetSize calls reach.  Fails: forward and     *)
(* down add the parameter to the coordinate without an overflow check,     *)
(* and the wrapped, negative sum passes the test against cols or lines.    *)
(***************************************************************************)
C21_CursorNeverNegative ==
    /\ scr.x >= 0
    /\ scr.y >= 0

(***************************************************************************)
(* Sequences cut between Writes: the pieces of control sequences,          *)
(* operating system commands, application program commands and charset     *)
(* selections, so that a Write ends in every mode of the parser.           *)
(***************************************************************************)
RestInputs ==
    { <<97>>,                               \* a
      <<195, 169>>,                         \* e-acute
      <<ESC>>,
      <<97, 97, ESC, 91, 51>>,              \* a a ESC [ 3
      <<59>>,                               \* ;
      <<49, 109>>,                          \* 1 m
      <<ESC, 93, 49>>,                      \* ESC ] 1
      <<97, ESC, 95, 49>>,                  \* a ESC _ 1
      <<ESC, 40>>,                          \* ESC (
      <<BEL>>,
      <<92>>,                               \* backslash
      <<91>> }                              \* [

NextRest == WriteCall(RestInputs) \/ SetSizeCall
SpecRest == Init /\ [][NextRest]_vars

\* The modes in which instructionStartedAt marks the start of a payload.
PayloadModes ==
    {parserModeControl, parserModeOSC, parserModeOSCEsc,
     parserModeAPC, parserModeAPCEsc}

(***************************************************************************)
(* C22.  After every Write that returns, the parser rests: cursor =        *)
(* len(buffer); in Normal mode the residual buffer is empty; in any other  *)
(* mode escapeStartedAt = 0 and buffer[0] is the ESC that opened the       *)
(* pending sequence, and in the modes Control, OSC, OSCEsc, APC and APCEsc *)
(* 0 < instructionStartedAt <= cursor.                                     *)
(***************************************************************************)
C22_ParserRests ==
    (last.op = "Write" /\ alive(scr)) =>
        LET p == scr.parser
        IN  /\ p.cursor = Len(p.buffer)
            /\ p.mode = parserModeNormal => p.buffer = <<>>
            /\ p.mode # parserModeNormal =>
                /\ p.escapeStartedAt = 0
                /\ Len(p.buffer) >= 1
                /\ p.buffer[1] = ESC
            /\ p.mode \in PayloadModes =>
                /\ 0 < p.instructionStartedAt
                /\ p.instructionStartedAt <= p.cursor

\* A Write that began and ended inside the same pending sequence, which
\* started after text in an earlier Write and is past its first parameter.
C22_Witness ==
    /\ last.op = "Write"
    /\ alive(scr)
    /\ prev.parser.mode = parserModeControl
    /\ scr.parser.mode = parserModeControl
    /\ scr.parser.instructionStartedAt > 2
    /\ Len(scr.parser.buffer) > Len(prev.parser.buffer)
    /\ prev.screen # <<>>

(***************************************************************************)
(* Text and erasures on screens whose buffer is longer than the window.    *)
(***************************************************************************)
ScrollInputs ==
    { <<97, LF, 98, LF, 99, LF, 100>>,                      \* a\nb\nc\nd
      <<88>>,                                               \* X
      <<LF>>,
      <<CR>>,
      CSI(<<>>, 65),                                        \* up 1
      CSI(<<49>>, 74),                                      \* erase display 1
      CSI(<<50>>, 75),                                      \* erase line 2
      CSI(<<51>>, 74),                                      \* erase display 3
      CSI(<<50>>, 74) \o <<88>>,                            \* erase display 2, X
      CSI(<<>>, 65) \o CSI(<<>>, 74) \o <<CR, 88>> }        \* up 1, erase display, \r X

NextScroll == WriteCall(ScrollInputs) \/ SetSizeCall
SpecScroll == Init /\ [][NextScroll]_vars

\* The lines scrolled out of the buffer by the last call.
Evicted == scr.LinesScrolledOut - prev.LinesScrolledOut

(***************************************************************************)
(* C23.  Scroll-back is immutable: a line whose index is below top() is    *)
(* not changed by a later Write; it only leaves the buffer by eviction     *)
(* from index 0 or by CSI 3 J.  Fails: CSI 2 J and CSI 0 J shorten the     *)
(* buffer, the window becomes the last lines of what is left, and the      *)
(* text that follows is written into lines that were scroll-back.          *)
(***************************************************************************)
C23_ScrollbackImmutable ==
    (last.op = "Write" /\ alive(scr) /\ last.input # CSI(<<51>>, 74)) =>
        \A i \in 1..top(prev) :
            i > Evicted =>
                /\ i - Evicted <= Len(scr.screen)
                /\ scr.screen[i - Evicted].nodes = prev.screen[i].nodes

(***************************************************************************)
(* The caller's slice.  parseToScreen starts with "p.buffer = input" when  *)
(* the buffer is empty, and ends with "p.buffer = p.buffer[done:]": after  *)
(* a Write that began with an empty buffer and ended inside a sequence,    *)
(* the residual buffer is the tail of the array the caller passed.  A      *)
(* caller that reuses the slice for its next read writes into that array.  *)
(***************************************************************************)
AliasInputs ==
    { <<97>>,                               \* a
      <<ESC, 91, 51>>,                      \* ESC [ 3
      <<97, ESC, 91, 51>>,                  \* a ESC [ 3
      <<49, 109, 88>>,                      \* 1 m X
      <<ESC, 93, 50>>,                      \* ESC ] 2
      <<49, BEL>>,                          \* 1 BEL
      <<ESC>> }

\* What the caller puts at the start of the slice it passed.
OverwriteData == { <<49, 109, 88>>, <<49, BEL>>, <<97>>, <<88, 88, 88, 88>> }

\* The residual buffer is the tail of the slice of the last Write.
ResidueInCallerSlice ==
    /\ last.op = "Write"
    /\ alive(scr)
    /\ prev.parser.buffer = <<>>
    /\ scr.parser.buffer # <<>>

\* The residue when the caller has written data over input, the slice whose
\* tail the residue is.
overwritten(buffer, input, data) ==
    LET done == Len(input) - Len(buffer)
    IN  [j \in 1..Len(buffer) |->
            IF done + j <= Len(data) THEN data[done + j] ELSE buffer[j]]

\* The caller overwrites the first bytes of the slice it passed last.
CallerOverwrites ==
    /\ calls < MaxCalls
    /\ ResidueInCallerSlice
    /\ \E data \in OverwriteData :
        /\ Len(data) <= Len(last.input)
        /\ scr' = [scr EXCEPT !.parser.buffer = overwritten(@, last.input, data)]
        /\ last' = call("overwrite", data, 0, 0)
    /\ prev' = scr
    /\ UNCHANGED <<ret, calls>>

NextAlias == WriteCall(AliasInputs) \/ SetSizeCall \/ CallerOverwrites
SpecAlias == Init /\ [][NextAlias]_vars

(***************************************************************************)
(* C24.  Write does not depend on the caller's slice after it returns:     *)
(* when a Write ends inside an escape sequence and the caller overwrites   *)
(* the slice before the next Write, the pending sequence is completed from *)
(* the bytes originally written.  Fails: the residual buffer is the        *)
(* caller's array, and the next Write parses the overwritten bytes.        *)
(***************************************************************************)
C24_WriteKeepsItsBytes ==
    [][(last.op = "overwrite" /\ last'.op = "Write" /\ alive(scr')) =>
            /\ View(scr') = View(Write(prev, last'.input))
            /\ Carried(scr') = Carried(Write(prev, last'.input))]_vars

====
